---- MODULE Spec2Model ----
(***************************************************************************)
(* PortfolioSimulation (src/chapter10/portfolio_simulation.py): the        *)
(* constructor loads the optimizer class, simulates the mean-variance      *)
(* distribution over a batch of random weight rows and sweeps the target   *)
(* returns to build the efficient frontier; two properties expose the      *)
(* stored results.                                                         *)
(*                                                                         *)
(* Floats are modelled as exact rationals <<n, d>> with d > 0 in lowest    *)
(* terms; <<1, 0>>, <<-1, 0>> and <<0, 0>> are IEEE +inf, -inf and NaN, so *)
(* that 1.0 / 0 and 0 * inf behave as numpy's do.  Rounding is not         *)
(* modelled.                                                               *)
(***************************************************************************)
EXTENDS Integers, Sequences, FiniteSets, TLC

VARIABLES
    pc,                          \* position in __init__, or after it
    class_name,                  \* portfolio_optimizer_full_class_name
    portfolio_assets,            \* the provider: tickers, data, weights slot
    portfolio_optimizer_class,   \* self._portfolio_optimizer_class
    ri,                          \* the integer draws of the sampler alone
    weights_batch,               \* the rows the sampler returned last
    mean_var_dist,               \* self._mean_var_dist
    target_means_space,          \* the targets of the sweep
    efficient_frontier,          \* self._efficient_frontier
    calls,                       \* every use of the provider and of an
                                 \* optimizer, in the order made
    optimizers,                  \* every optimizer instance made
    guard_fired,                 \* line 101's branch was taken
    error,                       \* the exception leaving __init__
    returned                     \* what the last accessor call returned

vars == <<pc, class_name, portfolio_assets, portfolio_optimizer_class, ri,
          weights_batch, mean_var_dist, target_means_space,
          efficient_frontier, calls, optimizers, guard_fired, error,
          returned>>

(***************************************************************************)
(* Program constants and the bounds of the model.                          *)
(***************************************************************************)
N_SIMULATION_MEAN_VAR == 2000

N_SIMULATION_EFFICIENT_FRONTIER == 100

RandIntHigh == 100

\* Seeds of the generator: seed s fixes the whole matrix of draws.
MaxSeed == 2

\* Period of an optimizer class's sequence of per-target results.
PatternLen == 2

\* An optimizer may raise at any of the first MaxFailAt targets, or at the
\* last one.
MaxFailAt == 3

\* Largest asset count of a single sampled row (specification SpecWeights).
MaxAssets == 3

\* Draws 0..MaxDraw, and the largest draw, are tried in a single sampled row.
MaxDraw == 2

(***************************************************************************)
(* Floats.                                                                 *)
(***************************************************************************)
Abs(x) == IF x < 0 THEN -x ELSE x

Sign(x) == IF x < 0 THEN -1 ELSE IF x > 0 THEN 1 ELSE 0

RECURSIVE GCD(_, _)
GCD(a, b) == IF b = 0 THEN a ELSE GCD(b, a % b)

Float(n, d) ==
    IF d = 0 THEN <<Sign(n), 0>>
    ELSE LET g == GCD(Abs(n), Abs(d))
             s == Sign(d)
         IN  <<(s * n) \div g, (s * d) \div g>>

NaN == <<0, 0>>

Zero == <<0, 1>>

One == <<1, 1>>

IsNaN(x) == x = NaN

IsFinite(x) == x[2] # 0

FAdd(x, y) == Float(x[1] * y[2] + y[1] * x[2], x[2] * y[2])

FSub(x, y) == Float(x[1] * y[2] - y[1] * x[2], x[2] * y[2])

FMul(x, y) == Float(x[1] * y[1], x[2] * y[2])

FDiv(x, y) == Float(x[1] * y[2], x[2] * y[1])

\* IEEE comparisons: every comparison with NaN is false.
FLeq(x, y) ==
    /\ ~IsNaN(x) /\ ~IsNaN(y)
    /\ IF IsFinite(x) /\ IsFinite(y)
       THEN x[1] * y[2] <= y[1] * x[2]
       ELSE x = <<-1, 0>> \/ y = <<1, 0>> \/ x = y

FEq(x, y) == ~IsNaN(x) /\ ~IsNaN(y) /\ x = y

RECURSIVE IntSum(_)
IntSum(row) == IF row = <<>> THEN 0 ELSE Head(row) + IntSum(Tail(row))

RECURSIVE FSum(_)
FSum(row) == IF row = <<>> THEN Zero ELSE FAdd(Head(row), FSum(Tail(row)))

(***************************************************************************)
(* Values of the attributes and of the collaborators.                      *)
(***************************************************************************)
Unset == [tag |-> "unset", rows |-> <<>>]

NoneFrame == [tag |-> "None", rows |-> <<>>]

DataFrame(rows) == [tag |-> "DataFrame", rows |-> rows]

Point(means, var) == [Expected_Return |-> means, Volatility |-> var]

\* pd.concat([frame, one-row frame], ignore_index=True)
Concat(frame, point) == Append(frame, point)

Column(frame, name) ==
    [k \in 1..Len(frame) |->
        IF name = "Expected Return" THEN frame[k].Expected_Return
        ELSE frame[k].Volatility]

\* optimal_variance of an optimizer that found no solution
None == <<>>

\* The results an optimizer reports: no solution, a zero or a positive variance.
VarianceResults == {None, Zero, One}

\* A class's results repeat with period PatternLen over the instances made.
Behaviours == [1..PatternLen -> VarianceResults]

\* Class names handed to the constructor: one that resolves, a missing
\* module, a missing class of an existing module, a name without a dot and
\* the default None.
ClassNames == {"pkg.optimizers.Optimizer", "nonexistent.module.Class",
               "pkg.optimizers.Missing", "Optimizer", "None"}

\* full_class_name.rsplit(".", 1), import_module and getattr all succeed
Resolvable(name) == name = "pkg.optimizers.Optimizer"

\* The provider: tickers, per-asset expected return and volatility, and the
\* weights slot.  expected_return and volatility are recomputed from the
\* current weights.
Providers ==
    { [ticker_symbols |-> <<"A", "B">>,
       asset_returns |-> <<Float(1, 1), Float(2, 1)>>,
       asset_volatilities |-> <<Float(5, 1), Float(8, 1)>>,
       weights |-> <<Zero, Zero>>],
      [ticker_symbols |-> <<"A", "B">>,
       asset_returns |-> <<Float(1, 1), Float(1, 1)>>,
       asset_volatilities |-> <<Float(5, 1), Float(8, 1)>>,
       weights |-> <<Zero, Zero>>],
      [ticker_symbols |-> <<"A">>,
       asset_returns |-> <<Float(3, 1)>>,
       asset_volatilities |-> <<Float(5, 1)>>,
       weights |-> <<Zero>>] }

Dot(u, v) == FSum([j \in 1..Len(u) |-> FMul(u[j], v[j])])

expected_return(assets) == Dot(assets.weights, assets.asset_returns)

volatility(assets) == Dot(assets.weights, assets.asset_volatilities)

(***************************************************************************)
(* The weight sampler, and the library functions of the sweep.             *)
(***************************************************************************)
\* np.random.randint(100, size=(rows, cols)): integers of [0, 100).  The
\* generator is deterministic in its seed; the seeds tried give a matrix of
\* zeros (seed 0), a matrix with some all-zero rows (seed 1) and, with two
\* columns or more, matrices without any (the other seeds).
random_randint(seed, rows, cols) ==
    [i \in 1..rows |->
        [j \in 1..cols |->
            (seed * (i - 1) * j + (seed \div 2) * (j - 1)) % RandIntHigh]]

\* norm_factor = 1.0 / ri.sum(axis=1); (ri.T * norm_factor).T, one row
normalise_row(row) ==
    LET norm_factor == FDiv(One, Float(IntSum(row), 1))
    IN  [j \in 1..Len(row) |-> FMul(Float(row[j], 1), norm_factor)]

generate_random_asset_weight_distribution(draws) ==
    [i \in 1..Len(draws) |-> normalise_row(draws[i])]

\* np.min / np.max of a Series: pandas' reduction, which skips NaN and is
\* NaN when nothing is left
SeriesMin(col) ==
    LET vals == {col[k] : k \in 1..Len(col)} \ {NaN}
    IN  IF vals = {} THEN NaN
        ELSE CHOOSE m \in vals : \A v \in vals : FLeq(m, v)

SeriesMax(col) ==
    LET vals == {col[k] : k \in 1..Len(col)} \ {NaN}
    IN  IF vals = {} THEN NaN
        ELSE CHOOSE m \in vals : \A v \in vals : FLeq(v, m)

\* A linspace that places each sample by dividing its offset by the range.
linspace_by_range(start, stop, num) ==
    LET delta == FSub(stop, start)
    IN  [k \in 1..num |->
            FAdd(start,
                 FMul(delta, FDiv(FMul(Float(k - 1, 1), delta),
                                  FMul(Float(num - 1, 1), delta))))]

\* np.linspace(start, stop, num): start + k * step with
\* step = (stop - start) / (num - 1), the last sample set to stop
linspace(start, stop, num) ==
    LET div  == num - 1
        step == FDiv(FSub(stop, start), Float(div, 1))
    IN  [k \in 1..num |->
            IF div = 0 THEN FAdd(start, FMul(Zero, FSub(stop, start)))
            ELSE IF k = num THEN stop
            ELSE FAdd(start, FMul(Float(k - 1, 1), step))]

\* The test written as "if optimal_var:", which also drops a variance of 0.
IsTruthy(optimal_var) == optimal_var # None /\ optimal_var # Zero

\* optimal_var is not None
IsNotNone(optimal_var) == optimal_var # None

\* optimal_variance of the instance made for target number k (from 1)
optimal_variance(behaviour, k) == behaviour[((k - 1) % PatternLen) + 1]

\* One use of a collaborator: the operation and what was passed or returned.
Call(op, arg) == [op |-> op, arg |-> arg]

\* An optimizer instance: its target, the fits made, what fit was given,
\* the variance read from it and where it raised.
Optimizer(target, fits, fit_on, var, raised) ==
    [expected_mean_return |-> target, fits |-> fits, fit_on |-> fit_on,
     optimal_variance |-> var, raised |-> raised]

\* Where an optimizer raises: at no target, or at target `at` in its
\* constructor ("init") or in fit ("fit").
NoFailure == [at |-> 0, in |-> "no"]

Failures ==
    {NoFailure} \cup
    [at : {k \in 1..N_SIMULATION_EFFICIENT_FRONTIER :
              k <= MaxFailAt \/ k = N_SIMULATION_EFFICIENT_FRONTIER},
     in : {"init", "fit"}]

NoReturn == [property |-> "none", value |-> Unset]

(***************************************************************************)
(* The simulation, lines 55-86.                                            *)
(***************************************************************************)
\* A pass that reads the provider before it assigns the row.
simulate_pass_read_first(assets, row) ==
    LET means == expected_return(assets)
        var   == volatility(assets)
    IN  [assets |-> [assets EXCEPT !.weights = row],
         point  |-> Point(means, var),
         calls  |-> <<Call("expected_return", means),
                      Call("volatility", var),
                      Call("weights", row)>>]

\* lines 75-84, one pass of the loop on weights_batch[i_batch] = row: the
\* provider as the pass leaves it, the point it appends and the calls it
\* makes
simulate_pass(assets, row) ==
    LET assigned == [assets EXCEPT !.weights = row]
        means    == expected_return(assigned)
        var      == volatility(assigned)
    IN  [assets |-> assigned,
         point  |-> Point(means, var),
         calls  |-> <<Call("weights", row),
                      Call("expected_return", means),
                      Call("volatility", var)>>]

\* line 69: the rows the sampler returns for the provider's tickers
sample(assets, seed) ==
    generate_random_asset_weight_distribution(
        random_randint(seed, N_SIMULATION_MEAN_VAR,
                       Len(assets.ticker_symbols)))

\* lines 68-86 on the sampled rows: the frame returned, and the provider
\* and the calls as the simulation leaves them.  A pass hands the next one
\* nothing but the provider, so pass i starts from the provider as pass
\* i - 1 leaves it and the frame is the passes' points in order.
simulate_expected_return_volatility_distribution(assets, made, batch) ==
    LET n == N_SIMULATION_MEAN_VAR
        before(i) == IF i = 1 THEN assets
                     ELSE simulate_pass(assets, batch[i - 1]).assets
        passes == [i \in 1..n |-> simulate_pass(before(i), batch[i])]
    IN  IF passes = <<>>
        THEN [batch  |-> batch, frame |-> DataFrame(<<>>),
              assets |-> assets, calls |-> made]
        ELSE [batch  |-> batch,
              frame  |-> DataFrame([i \in 1..n |-> passes[i].point]),
              assets |-> passes[n].assets,
              calls  |-> made \o [k \in 1..(3 * n) |->
                           passes[(k + 2) \div 3].calls[((k - 1) % 3) + 1]]]

(***************************************************************************)
(* The sweep, lines 88-131.                                                *)
(***************************************************************************)
\* A pass that catches what the optimizer raises and goes on.
frontier_pass_catching(local, target_mean, optimal_var, raises) ==
    IF raises # "no"
    THEN [local EXCEPT
            !.optimizers = Append(@, Optimizer(target_mean,
                IF raises = "fit" THEN 1 ELSE 0,
                IF raises = "fit" THEN local.assets.ticker_symbols ELSE <<>>,
                None, raises)),
            !.calls = Append(@, Call("construct", target_mean))]
    ELSE [local EXCEPT
            !.optimizers = Append(@, Optimizer(target_mean, 1,
                local.assets.ticker_symbols, optimal_var, "no")),
            !.calls = @ \o <<Call("construct", target_mean),
                             Call("fit", local.assets.ticker_symbols),
                             Call("optimal_variance", optimal_var)>>,
            !.frame = IF IsNotNone(optimal_var)
                      THEN Concat(@, Point(target_mean, optimal_var))
                      ELSE @]

\* lines 114-129, one pass of the loop; once a pass has raised, no later
\* pass runs
frontier_pass(local, target_mean, optimal_var, raises) ==
    IF local.error # "none" THEN local
    ELSE IF raises = "init"
    THEN [local EXCEPT
            !.optimizers = Append(@, Optimizer(target_mean, 0, <<>>, None,
                                               "init")),
            !.calls = Append(@, Call("construct", target_mean)),
            !.error = "optimizer"]
    ELSE IF raises = "fit"
    THEN [local EXCEPT
            !.optimizers = Append(@, Optimizer(target_mean, 1,
                local.assets.ticker_symbols, None, "fit")),
            !.calls = @ \o <<Call("construct", target_mean),
                             Call("fit", local.assets.ticker_symbols)>>,
            !.error = "optimizer"]
    ELSE [local EXCEPT
            !.optimizers = Append(@, Optimizer(target_mean, 1,
                local.assets.ticker_symbols, optimal_var, "no")),
            !.calls = @ \o <<Call("construct", target_mean),
                             Call("fit", local.assets.ticker_symbols),
                             Call("optimal_variance", optimal_var)>>,
            !.frame = IF IsNotNone(optimal_var)
                      THEN Concat(@, Point(target_mean, optimal_var))
                      ELSE @]

\* line 113: the passes for i_batch = lo - 1 .. hi - 1, in order
RECURSIVE frontier_passes(_, _, _, _, _, _)
frontier_passes(local, targets, behaviour, failure, lo, hi) ==
    IF lo > hi THEN local
    ELSE IF lo = hi
    THEN frontier_pass(local, targets[lo], optimal_variance(behaviour, lo),
                       IF failure.at = lo THEN failure.in ELSE "no")
    ELSE LET mid   == (lo + hi) \div 2
             first == frontier_passes(local, targets, behaviour, failure,
                                      lo, mid)
         IN  IF first.error # "none" THEN first
             ELSE frontier_passes(first, targets, behaviour, failure,
                                  mid + 1, hi)

\* lines 104 and 113-131 over the targets: the frame returned, or the error
\* raised, with the optimizers and the calls made.  `behaviour` and
\* `failure` are what the optimizers do.
sweep(assets, targets, behaviour, failure) ==
    frontier_passes([assets |-> assets, frame |-> <<>>, calls |-> <<>>,
                     optimizers |-> <<>>, error |-> "none"],
                    targets, behaviour, failure,
                    1, N_SIMULATION_EFFICIENT_FRONTIER)

(***************************************************************************)
(* __init__, lines 29-36, and the accessors.                               *)
(***************************************************************************)
Init ==
    /\ pc = "init"
    /\ class_name \in ClassNames
    /\ portfolio_assets \in Providers
    /\ portfolio_optimizer_class = "unset"
    /\ ri = <<>>
    /\ weights_batch = <<>>
    /\ mean_var_dist = Unset
    /\ target_means_space = <<>>
    /\ efficient_frontier = Unset
    /\ calls = <<>>
    /\ optimizers = <<>>
    /\ guard_fired = FALSE
    /\ error = "none"
    /\ returned = NoReturn

\* A loader that only stores the name and leaves the lookup for later.
load_lazily ==
    /\ pc = "init"
    /\ portfolio_optimizer_class' = class_name
    /\ pc' = "simulate"
    /\ UNCHANGED <<class_name, portfolio_assets, ri, weights_batch,
                   mean_var_dist, target_means_space, efficient_frontier, calls,
                   optimizers,
                   guard_fired, error, returned>>

\* lines 32-34 and 38-41: the lookup raises out of __init__ when the name
\* does not resolve
load_portfolio_optimizer_class ==
    /\ pc = "init"
    /\ IF Resolvable(class_name)
       THEN /\ portfolio_optimizer_class' = class_name
            /\ pc' = "simulate"
            /\ error' = error
       ELSE /\ portfolio_optimizer_class' = portfolio_optimizer_class
            /\ pc' = "failed"
            /\ error' = "resolution"
    /\ UNCHANGED <<class_name, portfolio_assets, ri, weights_batch,
                   mean_var_dist, target_means_space, efficient_frontier, calls,
                   optimizers,
                   guard_fired, returned>>

\* A simulation whose result is lost: None is stored.
simulate_storing_none ==
    /\ pc = "simulate"
    /\ \E seed \in 0..MaxSeed : \E batch \in {sample(portfolio_assets, seed)} :
          LET sim == simulate_expected_return_volatility_distribution(
                         portfolio_assets, calls, batch)
          IN  /\ mean_var_dist' = NoneFrame
              /\ weights_batch' = sim.batch
              /\ portfolio_assets' = sim.assets
              /\ calls' = sim.calls
    /\ pc' = "frontier"
    /\ UNCHANGED <<class_name, portfolio_optimizer_class, ri,
                   target_means_space, efficient_frontier, optimizers,
                   guard_fired, error, returned>>

\* line 35
simulate ==
    /\ pc = "simulate"
    /\ \E seed \in 0..MaxSeed : \E batch \in {sample(portfolio_assets, seed)} :
          LET sim == simulate_expected_return_volatility_distribution(
                         portfolio_assets, calls, batch)
          IN  /\ mean_var_dist' = sim.frame
              /\ weights_batch' = sim.batch
              /\ portfolio_assets' = sim.assets
              /\ calls' = sim.calls
    /\ pc' = "frontier"
    /\ UNCHANGED <<class_name, portfolio_optimizer_class, ri,
                   target_means_space, efficient_frontier, optimizers,
                   guard_fired, error, returned>>

\* lines 101-102: the guard of the sweep
frontier_guard ==
    /\ pc = "frontier"
    /\ IF mean_var_dist = NoneFrame
       THEN /\ \E seed \in 0..MaxSeed :
                \E batch \in {sample(portfolio_assets, seed)} :
                  LET sim == simulate_expected_return_volatility_distribution(
                                 portfolio_assets, calls, batch)
                  IN  /\ mean_var_dist' = sim.frame
                      /\ weights_batch' = sim.batch
                      /\ portfolio_assets' = sim.assets
                      /\ calls' = sim.calls
            /\ guard_fired' = TRUE
       ELSE UNCHANGED <<mean_var_dist, weights_batch, portfolio_assets,
                        calls, guard_fired>>
    /\ pc' = "frontier_space"
    /\ UNCHANGED <<class_name, portfolio_optimizer_class, ri,
                   target_means_space, efficient_frontier, optimizers,
                   error, returned>>

\* lines 108-111
frontier_space ==
    /\ pc = "frontier_space"
    /\ LET col == Column(mean_var_dist.rows, "Expected Return")
       IN  target_means_space' =
               linspace(SeriesMin(col), SeriesMax(col),
                        N_SIMULATION_EFFICIENT_FRONTIER)
    /\ pc' = "frontier_loop"
    /\ UNCHANGED <<class_name, portfolio_assets, portfolio_optimizer_class,
                   ri, weights_batch, mean_var_dist, efficient_frontier,
                   calls, optimizers, guard_fired, error, returned>>

\* lines 104, 113-131 and 36: the frontier is stored when the sweep
\* returns, and nothing is when it raises
frontier_sweep ==
    /\ pc = "frontier_loop"
    /\ \E behaviour \in Behaviours, failure \in Failures :
          LET path == sweep(portfolio_assets, target_means_space,
                            behaviour, failure)
          IN  /\ portfolio_assets' = path.assets
              /\ calls' = calls \o path.calls
              /\ optimizers' = optimizers \o path.optimizers
              /\ error' = path.error
              /\ IF path.error = "none"
                 THEN /\ efficient_frontier' = DataFrame(path.frame)
                      /\ pc' = "done"
                 ELSE /\ efficient_frontier' = efficient_frontier
                      /\ pc' = "failed"
    /\ UNCHANGED <<class_name, portfolio_optimizer_class, ri, weights_batch,
                   mean_var_dist, target_means_space, guard_fired, returned>>

\* lines 133-135
mean_variance_distribution ==
    /\ pc = "done"
    /\ returned' = [property |-> "mean_variance_distribution",
                    value |-> mean_var_dist]
    /\ UNCHANGED <<pc, class_name, portfolio_assets,
                   portfolio_optimizer_class, ri, weights_batch,
                   mean_var_dist, target_means_space, efficient_frontier, calls,
                   optimizers,
                   guard_fired, error>>

\* An accessor that has the frontier computed again on every call.
efficient_frontier_recomputed ==
    /\ pc = "done"
    /\ returned' = [property |-> "efficient_frontier",
                    value |-> efficient_frontier]
    /\ pc' = "frontier"
    /\ UNCHANGED <<class_name, portfolio_assets, portfolio_optimizer_class,
                   ri, weights_batch, mean_var_dist, target_means_space,
                   efficient_frontier, calls, optimizers, guard_fired,
                   error>>

\* lines 137-139
efficient_frontier_property ==
    /\ pc = "done"
    /\ returned' = [property |-> "efficient_frontier",
                    value |-> efficient_frontier]
    /\ UNCHANGED <<pc, class_name, portfolio_assets,
                   portfolio_optimizer_class, ri, weights_batch,
                   mean_var_dist, target_means_space, efficient_frontier, calls,
                   optimizers,
                   guard_fired, error>>

Next ==
    \/ load_portfolio_optimizer_class
    \/ simulate
    \/ frontier_guard
    \/ frontier_space
    \/ frontier_sweep
    \/ mean_variance_distribution
    \/ efficient_frontier_property

Spec == Init /\ [][Next]_vars

(***************************************************************************)
(* The weight sampler alone, on every single row of draws within bounds.   *)
(***************************************************************************)
DrawValues == {d \in 0..(RandIntHigh - 1) : d <= MaxDraw \/ d = RandIntHigh - 1}

InitWeights ==
    /\ pc = "sample"
    /\ \E n \in 1..MaxAssets : \E row \in [1..n -> DrawValues] : ri = <<row>>
    /\ class_name = "pkg.optimizers.Optimizer"
    /\ portfolio_assets = [ticker_symbols |-> <<>>, asset_returns |-> <<>>,
                           asset_volatilities |-> <<>>, weights |-> <<>>]
    /\ portfolio_optimizer_class = "unset"
    /\ weights_batch = <<>>
    /\ mean_var_dist = Unset
    /\ target_means_space = <<>>
    /\ efficient_frontier = Unset
    /\ calls = <<>>
    /\ optimizers = <<>>
    /\ guard_fired = FALSE
    /\ error = "none"
    /\ returned = NoReturn

\* lines 50-53 on the draws ri
sample_weights ==
    /\ pc = "sample"
    /\ weights_batch' = generate_random_asset_weight_distribution(ri)
    /\ pc' = "sampled"
    /\ UNCHANGED <<class_name, portfolio_assets, portfolio_optimizer_class,
                   ri, mean_var_dist, target_means_space, efficient_frontier, calls,
                   optimizers,
                   guard_fired, error, returned>>

SpecWeights == InitWeights /\ [][sample_weights]_vars

(***************************************************************************)
(* What the properties below speak of.                                     *)
(***************************************************************************)
Constructed == pc = "done"

\* positions in the log of the calls of one operation
Positions(op) == {k \in 1..Len(calls) : calls[k].op = op}

\* the operations the sweep makes on an optimizer
SweepOperations == {"construct", "fit", "optimal_variance"}

\* A call of operation op with the sequence arg
IsCall(call, op, arg) == call.op = op /\ call.arg = arg

\* the point the provider reports while its weights slot holds row
PointOf(assets, row) ==
    LET holding == [assets EXCEPT !.weights = row]
    IN  Point(expected_return(holding), volatility(holding))

ExpectedReturns(frame) == Column(frame.rows, "Expected Return")

\* the points of the optimizers that reported a variance, in order
FeasiblePoints(made) ==
    LET feasible == SelectSeq(made, LAMBDA o : o.optimal_variance # None)
    IN  [k \in 1..Len(feasible) |->
            Point(feasible[k].expected_mean_return,
                  feasible[k].optimal_variance)]

\* the targets, by number, whose optimizer reported a variance
FeasibleTargets(made) ==
    SelectSeq([k \in 1..Len(made) |-> k],
              LAMBDA k : made[k].optimal_variance # None)

\* s is the subsequence of t at the strictly increasing positions at
IsSubsequenceAt(s, t, at) ==
    /\ Len(at) = Len(s)
    /\ \A i \in 1..Len(s) :
          /\ at[i] \in 1..Len(t)
          /\ i > 1 => at[i - 1] < at[i]
          /\ s[i] = t[at[i]]

NonDecreasing(col) == \A k \in 1..(Len(col) - 1) : FLeq(col[k], col[k + 1])

\* every point has the same expected return (min == max)
Degenerate(frame) ==
    /\ frame.tag = "DataFrame"
    /\ frame.rows # <<>>
    /\ \A i \in 1..Len(frame.rows) :
          FEq(frame.rows[i].Expected_Return, frame.rows[1].Expected_Return)

(***************************************************************************)
(* C1.                                                                     *)
(***************************************************************************)
\* C1: with a class name that does not resolve, construction ends in the
\* resolution error and nothing of the simulation or of the sweep has
\* happened: no weights assigned, no optimizer made, neither result stored.
C1_UnresolvableNameFailsFirst ==
    ~Resolvable(class_name) =>
        /\ pc \in {"init", "failed"}
        /\ pc = "failed" => error = "resolution"
        /\ Positions("weights") = {}
        /\ optimizers = <<>>
        /\ mean_var_dist = Unset
        /\ efficient_frontier = Unset

C1_Witness ==
    /\ class_name = "nonexistent.module.Class"
    /\ pc = "failed"
    /\ error = "resolution"
    /\ calls = <<>>

(***************************************************************************)
(* C2 (specification SpecWeights).                                         *)
(***************************************************************************)
\* C2: every row the sampler returns has one entry per ticker, every entry
\* non-negative, and the entries sum to 1.
C2_RowsSumToOne ==
    pc = "sampled" =>
        /\ Len(weights_batch) = Len(ri)
        /\ \A i \in 1..Len(weights_batch) :
              /\ Len(weights_batch[i]) = Len(ri[i])
              /\ \A j \in 1..Len(weights_batch[i]) :
                    FLeq(Zero, weights_batch[i][j])
              /\ FEq(FSum(weights_batch[i]), One)

(***************************************************************************)
(* C3.                                                                     *)
(***************************************************************************)
\* C3: after construction the distribution has 2000 points; pass i
\* assigns sampled row i, then reads expected_return and volatility with
\* no other assignment in between, and point i is the pair read, which is
\* what the provider reports while holding row i.
C3_PointPerRowInOrder ==
    Constructed =>
        /\ Len(mean_var_dist.rows) = N_SIMULATION_MEAN_VAR
        /\ Len(weights_batch) = N_SIMULATION_MEAN_VAR
        /\ Len(calls) >= 3 * N_SIMULATION_MEAN_VAR
        /\ \A i \in 1..N_SIMULATION_MEAN_VAR :
              /\ IsCall(calls[3 * i - 2], "weights", weights_batch[i])
              /\ calls[3 * i - 1].op = "expected_return"
              /\ calls[3 * i].op = "volatility"
              /\ mean_var_dist.rows[i] =
                     Point(calls[3 * i - 1].arg, calls[3 * i].arg)
              /\ mean_var_dist.rows[i] =
                     PointOf(portfolio_assets, weights_batch[i])

C3_Witness ==
    /\ Constructed
    /\ Len(mean_var_dist.rows) = N_SIMULATION_MEAN_VAR
    /\ IsFinite(mean_var_dist.rows[2].Expected_Return)
    /\ mean_var_dist.rows[2] # mean_var_dist.rows[3]
    /\ mean_var_dist.rows[2] = PointOf(portfolio_assets, weights_batch[2])

(***************************************************************************)
(* C4.                                                                     *)
(***************************************************************************)
\* C4: a sweep in which no optimizer raises ends without error, and the
\* frontier stored is, in order, the point (target, variance) of exactly
\* the optimizers that reported a variance; it is empty when none did.
C4_FrontierIsFeasibleTargets ==
    Constructed =>
        /\ error = "none"
        /\ efficient_frontier = DataFrame(FeasiblePoints(optimizers))
        /\ (\A k \in 1..Len(optimizers) :
               optimizers[k].optimal_variance = None)
           => efficient_frontier.rows = <<>>

C4_Witness ==
    /\ Constructed
    /\ \E k \in 1..Len(optimizers) : optimizers[k].optimal_variance = None
    /\ \E k \in 1..Len(optimizers) : optimizers[k].optimal_variance = Zero
    /\ \E k \in 1..Len(efficient_frontier.rows) :
          efficient_frontier.rows[k].Volatility = Zero
    /\ Len(efficient_frontier.rows) < Len(optimizers)

(***************************************************************************)
(* C5.                                                                     *)
(***************************************************************************)
\* C5: the frontier's expected-return column is a subsequence of the 100
\* targets in their order (the targets whose optimizer reported a
\* variance), is non-decreasing, and has at most 100 entries.
C5_FrontierColumnNonDecreasing ==
    Constructed =>
        /\ Len(target_means_space) = N_SIMULATION_EFFICIENT_FRONTIER
        /\ IsSubsequenceAt(ExpectedReturns(efficient_frontier),
                           target_means_space, FeasibleTargets(optimizers))
        /\ NonDecreasing(ExpectedReturns(efficient_frontier))
        /\ Len(efficient_frontier.rows) <= N_SIMULATION_EFFICIENT_FRONTIER

(***************************************************************************)
(* C6.                                                                     *)
(***************************************************************************)
\* C6: once the object is constructed every step is an accessor call that
\* returns the stored result it names and changes nothing else: no weights
\* assigned, no optimizer made or fitted, both stored results as they were.
C6_AccessorsOnlyRead ==
    [][Constructed =>
          /\ \/ returned' = [property |-> "mean_variance_distribution",
                             value |-> mean_var_dist]
             \/ returned' = [property |-> "efficient_frontier",
                             value |-> efficient_frontier]
          /\ UNCHANGED <<pc, class_name, portfolio_assets,
                         portfolio_optimizer_class, ri, weights_batch,
                         mean_var_dist, target_means_space,
                         efficient_frontier, calls, optimizers, guard_fired,
                         error>>]_vars

C6_Witness ==
    /\ Constructed
    /\ returned = [property |-> "efficient_frontier",
                   value |-> efficient_frontier]
    /\ efficient_frontier.rows # <<>>
    /\ Len(mean_var_dist.rows) = N_SIMULATION_MEAN_VAR

(***************************************************************************)
(* C7.                                                                     *)
(***************************************************************************)
\* C7: the guard of the sweep never fires; once the simulation is over the
\* weights have been assigned exactly 2000 times, and every one of those
\* assignments precedes every construction of an optimizer; when the
\* constructor returns both results are stored, the distribution with its
\* 2000 points.
C7_SimulationOnceBeforeSweep ==
    /\ guard_fired = FALSE
    /\ Cardinality(Positions("weights")) \in {0, N_SIMULATION_MEAN_VAR}
    /\ (pc \in {"frontier", "frontier_space", "frontier_loop", "done"}
        \/ optimizers # <<>>)
       => /\ Cardinality(Positions("weights")) = N_SIMULATION_MEAN_VAR
          /\ mean_var_dist.tag = "DataFrame"
    /\ \A k \in 1..(Len(calls) - 1) :
          calls[k].op \in SweepOperations => calls[k + 1].op \in SweepOperations
    /\ Constructed =>
          /\ Len(mean_var_dist.rows) = N_SIMULATION_MEAN_VAR
          /\ efficient_frontier.tag = "DataFrame"
          /\ Len(optimizers) = N_SIMULATION_EFFICIENT_FRONTIER

C7_Witness ==
    /\ Constructed
    /\ ~guard_fired
    /\ Cardinality(Positions("weights")) = N_SIMULATION_MEAN_VAR
    /\ Cardinality(Positions("construct")) = N_SIMULATION_EFFICIENT_FRONTIER
    /\ efficient_frontier.tag = "DataFrame"

(***************************************************************************)
(* C8.                                                                     *)
(***************************************************************************)
\* C8: an optimizer that raised in its constructor or in fit is the last
\* one made and the last one used: the constructor has failed with that
\* error, each target up to it was given one optimizer and no more, and no
\* frontier is stored or returned.
C8_OptimizerErrorPropagates ==
    \A k \in 1..Len(optimizers) :
        optimizers[k].raised # "no" =>
            /\ k = Len(optimizers)
            /\ pc = "failed"
            /\ error = "optimizer"
            /\ efficient_frontier = Unset
            /\ returned = NoReturn
            /\ Cardinality(Positions("construct")) = k
            /\ calls[Len(calls)].op =
                   (IF optimizers[k].raised = "init" THEN "construct"
                    ELSE "fit")
            /\ \A j \in 1..k :
                  optimizers[j].expected_mean_return = target_means_space[j]

C8_Witness ==
    /\ pc = "failed"
    /\ error = "optimizer"
    /\ Len(optimizers) = 2
    /\ optimizers[2].raised = "fit"
    /\ optimizers[1].optimal_variance # None
    /\ efficient_frontier = Unset

(***************************************************************************)
(* C9.                                                                     *)
(***************************************************************************)
\* C9: when every point has the same expected return, every target is that
\* value, a finite number, and a sweep in which no optimizer raises makes
\* 100 optimizers, each with that target and fitted once.
C9_DegenerateRangeRepeatsTarget ==
    Degenerate(mean_var_dist) =>
        LET single == mean_var_dist.rows[1].Expected_Return
        IN  /\ IsFinite(single)
            /\ \A k \in 1..Len(target_means_space) :
                  target_means_space[k] = single
            /\ pc \in {"frontier_loop", "done", "failed"} =>
                  Len(target_means_space) = N_SIMULATION_EFFICIENT_FRONTIER
            /\ \A k \in 1..Len(optimizers) :
                  optimizers[k].expected_mean_return = single
            /\ Constructed =>
                  /\ Len(optimizers) = N_SIMULATION_EFFICIENT_FRONTIER
                  /\ \A k \in 1..Len(optimizers) : optimizers[k].fits = 1

C9_Witness ==
    /\ Degenerate(mean_var_dist)
    /\ Constructed
    /\ Len(optimizers) = N_SIMULATION_EFFICIENT_FRONTIER
    /\ optimizers[N_SIMULATION_EFFICIENT_FRONTIER].expected_mean_return = One

(***************************************************************************)
(* C10.                                                                    *)
(***************************************************************************)
\* C10: a sweep in which no optimizer raises makes exactly 100 optimizers,
\* one per target and in ascending target order, each constructed with its
\* target, fitted once on the provider and then read; the first target
\* equals the minimum and the last the maximum of the distribution's
\* expected returns.
C10_OneOptimizerPerTarget ==
    Constructed =>
        LET n    == N_SIMULATION_EFFICIENT_FRONTIER
            base == 3 * N_SIMULATION_MEAN_VAR
            col  == ExpectedReturns(mean_var_dist)
        IN  /\ Len(optimizers) = n
            /\ Len(target_means_space) = n
            /\ Len(calls) = base + 3 * n
            /\ \A k \in 1..n :
                  /\ optimizers[k].expected_mean_return = target_means_space[k]
                  /\ optimizers[k].fits = 1
                  /\ optimizers[k].fit_on = portfolio_assets.ticker_symbols
                  /\ IsCall(calls[base + 3 * k - 2], "construct",
                            target_means_space[k])
                  /\ IsCall(calls[base + 3 * k - 1], "fit",
                            portfolio_assets.ticker_symbols)
                  /\ IsCall(calls[base + 3 * k], "optimal_variance",
                            optimizers[k].optimal_variance)
            /\ NonDecreasing(target_means_space)
            /\ FEq(target_means_space[1], SeriesMin(col))
            /\ FEq(target_means_space[n], SeriesMax(col))

====
